---- MODULE Spec2Model ----
(***************************************************************************)
(* Model of the game-eval engine: the history chain of state nodes, the    *)
(* transition / auto-transition / undo machinery of src/game/engine.js and *)
(* of the Engine class draft (src/unnamed/part_000), the Monte Carlo       *)
(* simulator built on them, and the state variants of the bundled games.   *)
(*                                                                         *)
(* Representation.  Every node that the program can still reach lies on    *)
(* the parent chain of stateHead (children are never referenced, and the   *)
(* saved heads of a running simulation are ancestors of the simulated      *)
(* head), so the heap of nodes is the sequence `chain`: chain[1] is the    *)
(* root (parent null), chain[i].parent is chain[i-1] and stateHead is the  *)
(* last element.  "stateHead = stateHead.parent" and "stateHead =          *)
(* savedHead" drop the nodes above the new head, which are then garbage.   *)
(* State variant instances carry no fields, so an instance is its class,   *)
(* written "<game>.<Class>".  A board cell holding null is written 0.      *)
(***************************************************************************)
EXTENDS Integers, Sequences, FiniteSets, TLC

VARIABLES
    engine,        \* which draft runs: "fn" (engine.js) or "cls" (Engine class)
    container,     \* the child elements of the DOM container, in document order
    currentState,  \* the current state variant, or NULL
    chain,         \* the parent chain of stateHead, root first; <<>> when stateHead is null
    sim,           \* call stack of a running runMonteCarlo / runOptionMonteCarlo
    ret,           \* what the last operation returned, if it was a simulator call
    last,          \* the last operation invoked: its name, its argument, the depth of
                   \* the head when it was invoked, how it ended and, for a simulator
                   \* call, how many of its rollouts ended with which winner
    before         \* the cursor as it was when that operation was invoked

vars == <<engine, container, currentState, chain, sim, ret, last, before>>

NULL == "null"
UNDEFINED == "undefined"

\* Bounds of the model.
MaxSims == 2        \* largest iteration count passed to runMonteCarlo
MaxOptSims == 1     \* largest iteration count passed to runOptionMonteCarlo
MaxSimEmpty == 3    \* tic-tac-toe: simulations start with at most this many empty cells
MaxDepth == 12      \* operations start only while the head is at most this deep
MaxSimTurns == 1    \* Modulo Sum: simulations start with at most this many turns left
MaxChain == 3       \* longest chain on which get is tried by itself

-----------------------------------------------------------------------------
(* Tokens *)

Digits == <<"0", "1", "2", "3", "4", "5", "6", "7", "8", "9">>

\* parseInt on a one-digit token
ParseInt(s) == CHOOSE n \in 0..9 : Digits[n + 1] = s

SeqToSet(s) == {s[i] : i \in 1..Len(s)}

Includes(s, x) == \E i \in 1..Len(s) : s[i] = x

-----------------------------------------------------------------------------
(* State nodes and the scoped store *)

NewNode(handler) ==
    [handler |-> handler, elements |-> <<>>, kvs |-> <<>>,
     activePlayer |-> -1, winner |-> -1]

Has(kvs, key) == key \in DOMAIN kvs

\* A lookup yields <<v>> when it finds the value v and <<>> for undefined.
RECURSIVE RecGet(_, _, _)
\* (mutant: the lookup answers from the farthest node that has the key)
RecGetOldest(ch, i, key) ==
    LET S == {j \in 1..i : Has(ch[j].kvs, key)}
    IN IF S = {} THEN <<>>
       ELSE <<ch[CHOOSE j \in S : \A k \in S : j <= k].kvs[key]>>

RecGet(ch, i, key) ==
    IF Has(ch[i].kvs, key) THEN <<ch[i].kvs[key]>>
    ELSE IF i > 1 THEN RecGet(ch, i - 1, key)
    ELSE <<>>

RECURSIVE LoopGet(_, _, _)
LoopGet(ch, n, key) ==
    IF n = 0 THEN <<>>
    ELSE IF Has(ch[n].kvs, key) THEN <<ch[n].kvs[key]>>
    ELSE LoopGet(ch, n - 1, key)

\* node.get(key) for the node at position i of the chain, in draft eng
NodeGet(eng, ch, i, key) ==
    IF eng = "fn" THEN RecGet(ch, i, key) ELSE LoopGet(ch, i, key)

-----------------------------------------------------------------------------
(* A cursor: the engine's mutable state while a handler runs.  threw is    *)
(* set when a call raised an exception; the statements after it are then   *)
(* skipped up to the handler's end (no draft catches anything).            *)

HeadNode(c) == c.ch[Len(c.ch)]

UsedIds(c) ==
    {c.cont[i].id : i \in 1..Len(c.cont)} \cup
    UNION {{c.ch[n].elements[i].id : i \in 1..Len(c.ch[n].elements)} : n \in 1..Len(c.ch)}

\* document.createElement makes an element distinct from every live one
FreshId(c) ==
    LET used == UsedIds(c)
    IN CHOOSE n \in 1..(Cardinality(used) + 1) : n \notin used

\* (mutant: the element is recorded in the head's parent, when it has one)
PrintLineBelow(c, text) ==
    IF Len(c.ch) = 0 THEN c
    ELSE LET el == [id |-> FreshId(c), text |-> text]
             h == IF Len(c.ch) > 1 THEN Len(c.ch) - 1 ELSE 1
         IN [c EXCEPT !.cont = Append(@, el),
                      !.ch[h].elements = Append(@, el)]

PrintLine(c, text) ==
    IF Len(c.ch) = 0 THEN c
    ELSE LET el == [id |-> FreshId(c), text |-> text]
             h == Len(c.ch)
         IN [c EXCEPT !.cont = Append(@, el),
                      !.ch[h].elements = Append(@, el)]

\* context.log: print for live play, the no-op sink inside simulations
Log(c, log, text) == IF log = "print" THEN PrintLine(c, text) ELSE c

RECURSIVE LogAll(_, _, _)
LogAll(c, log, texts) ==
    IF texts = <<>> THEN c
    ELSE LogAll(Log(c, log, Head(texts)), log, Tail(texts))

CtxLookup(c, key) == NodeGet(c.eng, c.ch, Len(c.ch), key)

CtxGet(c, key) == IF CtxLookup(c, key) = <<>> THEN UNDEFINED ELSE CtxLookup(c, key)[1]

\* (mutant: a key that an ancestor holds is overwritten where it is held)
CtxSetInPlace(c, key, value) ==
    LET S == {j \in 1..Len(c.ch) : Has(c.ch[j].kvs, key)}
        h == IF S = {} THEN Len(c.ch) ELSE CHOOSE j \in S : \A k \in S : k <= j
        old == c.ch[h].kvs
    IN [c EXCEPT !.ch[h].kvs =
            [k \in (DOMAIN old) \cup {key} |-> IF k = key THEN value ELSE old[k]]]

CtxSet(c, key, value) ==
    LET h == Len(c.ch)
        old == c.ch[h].kvs
    IN [c EXCEPT !.ch[h].kvs =
            [k \in (DOMAIN old) \cup {key} |-> IF k = key THEN value ELSE old[k]]]

CtxSetActivePlayer(c, id) == [c EXCEPT !.ch[Len(c.ch)].activePlayer = id]

\* (mutant: the winner is written to the node below the head)
CtxSetWinnerBelow(c, id) ==
    IF Len(c.ch) > 1 THEN [c EXCEPT !.ch[Len(c.ch) - 1].winner = id] ELSE c

CtxSetWinner(c, id) == [c EXCEPT !.ch[Len(c.ch)].winner = id]

\* (mutant: the active player is read from the head, not from its parent)
CtxGetLastActivePlayerOwn(c) == HeadNode(c).activePlayer

CtxGetLastActivePlayer(c) ==
    IF Len(c.ch) > 1 THEN c.ch[Len(c.ch) - 1].activePlayer ELSE -1

\* what processOption hands back: the mutated cursor and the returned state
Result(c, next) == [c |-> c, next |-> next]

Throw(c) == [c |-> [c EXCEPT !.threw = TRUE], next |-> NULL]

-----------------------------------------------------------------------------
(* Modulo Sum game, src/game/modulo-game.js *)

startScenario(c, log) ==
    LogAll(c, log, <<"Welcome to the Modulo Sum Game.", "How many players? (1-9)">>)

ModStartGetOptions(c) == <<"2", "3", "4", "5">>

ModStartProcessOption(input, c, log) ==
    IF input = NULL THEN Result(c, "mod.StartState")
    ELSE LET count == ParseInt(input)
             c1 == CtxSet(c, "player_count", count)
             c2 == CtxSetActivePlayer(c1, 1)
             c3 == CtxSet(c2, "current_sum", 0)
             c4 == LogAll(c3, log,
                     <<"> " \o input,
                       "Great. " \o ToString(count) \o " players configured.",
                       "----------------",
                       "Player 1, enter a number (0-9):">>)
         IN Result(c4, "mod.PlayerTurn")

ModTurnGetOptions(c) == Digits

ModTurnProcessOption(input, c, log) ==
    IF input = NULL THEN Result(c, "mod.PlayerTurn")
    ELSE LET val == ParseInt(input)
             currentSum == CtxGet(c, "current_sum")
             totalPlayers == CtxGet(c, "player_count")
             currentPlayer == CtxGetLastActivePlayer(c)
             c1 == Log(c, log, "> " \o ToString(val))
             newSum == currentSum + val
             c2 == CtxSet(c1, "current_sum", newSum)
         IN IF currentPlayer < totalPlayers
            THEN LET nextPlayer == currentPlayer + 1
                     c3 == CtxSetActivePlayer(c2, nextPlayer)
                     c4 == Log(c3, log, "Player " \o ToString(nextPlayer)
                                          \o ", enter a number (0-9):")
                 IN Result(c4, "mod.PlayerTurn")
            ELSE Result(c2, "mod.EndGame")

ModEndGetOptions(c) == <<>>

\* (mutant: the winner is the remainder itself)
ModEndProcessOptionNoShift(input, c, log) ==
    LET finalSum == CtxGet(c, "current_sum")
        totalPlayers == CtxGet(c, "player_count")
        winnerIndex == finalSum % totalPlayers
    IN Result(Log(CtxSetWinner(c, winnerIndex), log, "Game Over."), NULL)

ModEndProcessOption(input, c, log) ==
    LET finalSum == CtxGet(c, "current_sum")
        totalPlayers == CtxGet(c, "player_count")
        winnerIndex == (finalSum % totalPlayers) + 1
        c1 == CtxSetWinner(c, winnerIndex)
        c2 == LogAll(c1, log,
                <<"----------------",
                  "Total Sum: " \o ToString(finalSum),
                  "Calculation: " \o ToString(finalSum) \o " % " \o ToString(totalPlayers)
                      \o " = " \o ToString(finalSum % totalPlayers),
                  "Player " \o ToString(winnerIndex) \o " wins!",
                  "Game Over.">>)
    IN Result(c2, NULL)

-----------------------------------------------------------------------------
(* Tic-tac-toe, src/game/ttt-game.js *)

WINS == << <<0, 1, 2>>, <<3, 4, 5>>, <<6, 7, 8>>,
           <<0, 3, 6>>, <<1, 4, 7>>, <<2, 5, 8>>,
           <<0, 4, 8>>, <<2, 4, 6>> >>

EmptyBoard == [i \in 1..9 |-> 0]

\* board[idx] for a JavaScript (0-based) index
Cell(board, idx) == board[idx + 1]

\* (mutant: only the three rows count as lines)
checkWinRows(board, player) ==
    \E w \in 1..3 : \A j \in 1..3 : Cell(board, WINS[w][j]) = player

checkWin(board, player) ==
    \E w \in 1..Len(WINS) : \A j \in 1..3 : Cell(board, WINS[w][j]) = player

Mark(cell) == IF cell = 1 THEN "X" ELSE IF cell = 2 THEN "O" ELSE "."

printBoard(c, log, board) ==
    LogAll(c, log,
        << Mark(board[1]) \o " " \o Mark(board[2]) \o " " \o Mark(board[3]),
           Mark(board[4]) \o " " \o Mark(board[5]) \o " " \o Mark(board[6]),
           Mark(board[7]) \o " " \o Mark(board[8]) \o " " \o Mark(board[9]) >>)

TttStartGetOptions(c) == <<>>

TttStartProcessOption(input, c, log) ==
    LET c1 == CtxSet(c, "board", EmptyBoard)
        c2 == CtxSetActivePlayer(c1, 1)
        c3 == LogAll(c2, log,
                <<"Welcome to Tic-Tac-Toe.", "Player 1 is X. Player 2 is O.",
                  "----------------", "Game Started.">>)
        c4 == printBoard(c3, log, EmptyBoard)
        c5 == Log(c4, log, "Player 1 (X), choose a position (0-8):")
    IN Result(c5, "ttt.PlayerTurn")

RECURSIVE EmptyCellsFrom(_, _)
EmptyCellsFrom(board, i) ==
    IF i >= 9 THEN <<>>
    ELSE (IF Cell(board, i) = 0 THEN <<Digits[i + 2]>> ELSE <<>>)
         \o EmptyCellsFrom(board, i + 1)

\* (mutant: every cell is offered, marked or not)
TttTurnGetOptionsAll(c) == EmptyCellsFrom(EmptyBoard, 0)

TttTurnGetOptions(c) == EmptyCellsFrom(CtxGet(c, "board"), 0)

TttTurnProcessOption(input, c, log) ==
    IF input = NULL THEN Result(c, "ttt.PlayerTurn")
    ELSE LET idx == ParseInt(input) - 1
             oldBoard == CtxGet(c, "board")
             currentPlayer == CtxGetLastActivePlayer(c)
             newBoard == [oldBoard EXCEPT ![idx + 1] = currentPlayer]
             c1 == CtxSet(c, "board", newBoard)
             c2 == Log(c1, log, "> Player " \o ToString(currentPlayer)
                                  \o " chose " \o ToString(idx))
             c3 == printBoard(c2, log, newBoard)
         IN IF checkWin(newBoard, currentPlayer)
            THEN Result(CtxSet(c3, "winner_id", currentPlayer), "ttt.EndGame")
            ELSE IF \A i \in 1..9 : newBoard[i] # 0
            THEN Result(c3, "ttt.EndGame")
            ELSE LET nextPlayer == IF currentPlayer = 1 THEN 2 ELSE 1
                     c4 == CtxSetActivePlayer(c3, nextPlayer)
                     c5 == Log(c4, log, "Player " \o ToString(nextPlayer) \o " ("
                                  \o (IF nextPlayer = 1 THEN "X" ELSE "O")
                                  \o "), choose a position (0-8):")
                 IN Result(c5, "ttt.PlayerTurn")

TttEndGetOptions(c) == <<>>

\* (mutant: the end state hands itself back once before it ends the game)
TttEndProcessOptionAgain(input, c, log) ==
    IF c.ch[Len(c.ch) - 1].handler # "ttt.EndGame"
    THEN Result(Log(c, log, "----------------"), "ttt.EndGame")
    ELSE Result(Log(c, log, "Game Over."), NULL)

\* `if (winnerId)`: the key is visible and its value is not 0
TttEndProcessOption(input, c, log) ==
    LET winnerId == CtxGet(c, "winner_id")
        c1 == Log(c, log, "----------------")
        c2 == IF CtxLookup(c, "winner_id") # <<>> /\ winnerId # 0
              THEN Log(CtxSetWinner(c1, winnerId), log,
                       "Player " \o ToString(winnerId) \o " wins!")
              ELSE Log(c1, log, "It's a draw!")
        c3 == Log(c2, log, "Game Over.")
    IN Result(c3, NULL)

-----------------------------------------------------------------------------
(* A further game over the GameState interface (getOptions / processOption, *)
(* null to end the game), in two variants.  "gen": a start state with no   *)
(* option, a turn state one of whose options ends the game by returning    *)
(* null itself (as the README's example state does), and a state with a    *)
(* single option.  "bad": the same, and the turn state's processOption      *)
(* raises an exception on its option "c".                                  *)

GenStartGetOptions(c) == <<>>

GenStartProcessOption(g, input, c, log) ==
    Result(Log(CtxSetActivePlayer(c, 1), log, "start"), g \o ".Turn")

GenTurnGetOptions(g, c) == IF g = "bad" THEN <<"a", "b", "c">> ELSE <<"a", "b">>

GenTurnProcessOption(g, input, c, log) ==
    IF input = NULL THEN Result(c, g \o ".Turn")
    ELSE IF input = "a"
    THEN Result(Log(CtxSetWinner(c, CtxGetLastActivePlayer(c)), log, "You Win!"), NULL)
    ELSE IF input = "b"
    THEN Result(Log(CtxSetActivePlayer(c, 2), log, "next"), g \o ".Last")
    ELSE Throw(c)

GenLastGetOptions(c) == <<"z">>

GenLastProcessOption(g, input, c, log) ==
    IF input = NULL THEN Result(c, g \o ".Last")
    ELSE Result(Log(c, log, "You Lose."), NULL)

-----------------------------------------------------------------------------
(* Dynamic dispatch on the state variant *)

GetOptions(s, c) ==
    CASE s = "mod.StartState" -> ModStartGetOptions(c)
      [] s = "mod.PlayerTurn" -> ModTurnGetOptions(c)
      [] s = "mod.EndGame"    -> ModEndGetOptions(c)
      [] s = "ttt.StartState" -> TttStartGetOptions(c)
      [] s = "ttt.PlayerTurn" -> TttTurnGetOptions(c)
      [] s = "ttt.EndGame"    -> TttEndGetOptions(c)
      [] s = "gen.Start"      -> GenStartGetOptions(c)
      [] s = "gen.Turn"       -> GenTurnGetOptions("gen", c)
      [] s = "gen.Last"       -> GenLastGetOptions(c)
      [] s = "bad.Start"      -> GenStartGetOptions(c)
      [] s = "bad.Turn"       -> GenTurnGetOptions("bad", c)
      [] s = "bad.Last"       -> GenLastGetOptions(c)

ProcessOption(s, input, c, log) ==
    CASE s = "mod.StartState" -> ModStartProcessOption(input, c, log)
      [] s = "mod.PlayerTurn" -> ModTurnProcessOption(input, c, log)
      [] s = "mod.EndGame"    -> ModEndProcessOption(input, c, log)
      [] s = "ttt.StartState" -> TttStartProcessOption(input, c, log)
      [] s = "ttt.PlayerTurn" -> TttTurnProcessOption(input, c, log)
      [] s = "ttt.EndGame"    -> TttEndProcessOption(input, c, log)
      [] s = "gen.Start"      -> GenStartProcessOption("gen", input, c, log)
      [] s = "gen.Turn"       -> GenTurnProcessOption("gen", input, c, log)
      [] s = "gen.Last"       -> GenLastProcessOption("gen", input, c, log)
      [] s = "bad.Start"      -> GenStartProcessOption("bad", input, c, log)
      [] s = "bad.Turn"       -> GenTurnProcessOption("bad", input, c, log)
      [] s = "bad.Last"       -> GenLastProcessOption("bad", input, c, log)

-----------------------------------------------------------------------------
(* Engine core *)

\* new StateNodeImpl(stateHead, currentState); stateHead = newNode
PushNode(c) == [c EXCEPT !.ch = Append(@, NewNode(c.st))]

\* currentState = nextState, reached only when processOption returned
Assign(r) == IF r.c.threw THEN r.c ELSE [r.c EXCEPT !.st = r.next]

\* One transition with the given log sink: the new node becomes head, then
\* processOption runs on it.
Step(c, input, log) == Assign(ProcessOption(c.st, input, PushNode(c), log))

\* Engine.#transitionOnce
TransitionOnce(c, input) ==
    IF c.threw \/ c.st = NULL \/ Len(c.ch) = 0 THEN c
    ELSE Step(c, input, "print")

\* the input of an auto-transition: null for no option, else the only option
AutoInput(options) == IF Len(options) = 0 THEN NULL ELSE options[1]

\* Engine.#autoTransition: the while loop, and its body for an option list
RECURSIVE AutoTransition(_)
\* (mutant: a state with a single option is not advanced)
AutoBodyZeroOnly(c, nextOptions) ==
    IF Len(nextOptions) = 0 THEN AutoTransition(TransitionOnce(c, NULL)) ELSE c

AutoBody(c, nextOptions) ==
    IF Len(nextOptions) <= 1
    THEN AutoTransition(TransitionOnce(c, AutoInput(nextOptions)))
    ELSE c

AutoTransition(c) ==
    IF c.threw \/ c.st = NULL THEN c
    ELSE AutoBody(c, GetOptions(c.st, c))

\* (mutant: the states entered by a transition are not drained)
ClsTransitionNoDrain(c, input) == TransitionOnce(c, input)

\* Engine.transition
ClsTransition(c, input) == AutoTransition(TransitionOnce(c, input))

\* transition of engine.js: step 3 for an option list, steps 1-2 then 3
RECURSIVE transition(_, _)
\* (mutant: a state with a single option is left waiting)
AutoNextZeroOnly(c, options) ==
    IF Len(options) = 0 THEN transition(c, NULL) ELSE c

AutoNext(c, options) ==
    IF Len(options) <= 1 THEN transition(c, AutoInput(options)) ELSE c

AfterStep(c) ==
    IF c.threw \/ c.st = NULL THEN c
    ELSE AutoNext(c, GetOptions(c.st, c))

transition(c, input) ==
    IF c.threw \/ c.st = NULL \/ Len(c.ch) = 0 THEN c
    ELSE AfterStep(Step(c, input, "print"))

\* (mutant: only the first element of the node is removed)
RemoveElementsFirst(cont, els) ==
    SelectSeq(cont, LAMBDA e : els = <<>> \/ els[1] # e)

\* el.remove() for each element of the node
RemoveElements(cont, els) ==
    SelectSeq(cont, LAMBDA e : \A i \in 1..Len(els) : els[i] # e)

\* (mutant: the state is restored from the handler of the head's parent)
UndoOneParentHandler(c) ==
    LET h == HeadNode(c)
        below == c.ch[Len(c.ch) - 1]
    IN [c EXCEPT !.cont = RemoveElements(@, h.elements),
                 !.st = IF below.handler # NULL THEN below.handler ELSE @,
                 !.ch = SubSeq(@, 1, Len(@) - 1)]

\* (mutant: what the undone node stored stays visible at its parent)
UndoOneKeepData(c) ==
    LET h == HeadNode(c)
        below == c.ch[Len(c.ch) - 1]
        kept == [k \in DOMAIN below.kvs \cup DOMAIN h.kvs |->
                    IF k \in DOMAIN below.kvs THEN below.kvs[k] ELSE h.kvs[k]]
    IN [c EXCEPT !.cont = RemoveElements(@, h.elements),
                 !.st = IF h.handler # NULL THEN h.handler ELSE @,
                 !.ch = [SubSeq(@, 1, Len(@) - 1) EXCEPT ![Len(c.ch) - 1].kvs = kept]]

\* recursiveUndo, steps 1 to 3
UndoOne(c) ==
    LET h == HeadNode(c)
    IN [c EXCEPT !.cont = RemoveElements(@, h.elements),
                 !.st = IF h.handler # NULL THEN h.handler ELSE @,
                 !.ch = SubSeq(@, 1, Len(@) - 1)]

\* recursiveUndo, step 4, and the whole function
RECURSIVE recursiveUndo(_)
\* (mutant: an auto-entered state does not make the undo go on)
UndoNoFurther(c) == c

\* (mutant: only a state without options makes the undo go on)
UndoFurtherZeroOnly(c) ==
    IF c.st # NULL /\ Len(GetOptions(c.st, c)) = 0 THEN recursiveUndo(c) ELSE c

UndoFurther(c) ==
    IF c.st # NULL /\ Len(GetOptions(c.st, c)) <= 1 THEN recursiveUndo(c) ELSE c

\* (mutant: the first node above the root is never undone)
recursiveUndoAboveFirst(c) ==
    IF Len(c.ch) <= 2 THEN c ELSE UndoFurther(UndoOne(c))

\* (mutant: the guard looks for a head, not for the head's parent)
recursiveUndoPastRoot(c) ==
    IF Len(c.ch) = 0 THEN c ELSE UndoFurther(UndoOne(c))

recursiveUndo(c) ==
    IF Len(c.ch) <= 1 THEN c ELSE UndoFurther(UndoOne(c))

Backspace == "Backspace"

\* (mutant: the history node is allocated before the key is checked)
AcceptInputEager(c, key, options) ==
    IF Len(options) > 1 /\ Includes(options, key)
    THEN (IF c.eng = "fn" THEN transition(c, key) ELSE ClsTransition(c, key))
    ELSE PushNode(c)

\* handleGlobalKeydown, the input branch for the option list just read
AcceptInput(c, key, options) ==
    IF Len(options) > 1 /\ Includes(options, key)
    THEN (IF c.eng = "fn" THEN transition(c, key) ELSE ClsTransition(c, key))
    ELSE c

\* (mutant: Backspace undoes without looking for a parent)
handleGlobalKeydownNoParentCheck(c, key) ==
    IF Len(c.ch) = 0 THEN c
    ELSE IF key = Backspace THEN UndoFurther(UndoOne(c))
    ELSE IF c.st = NULL THEN c
    ELSE AcceptInput(c, key, GetOptions(c.st, c))

handleGlobalKeydown(c, key) ==
    IF Len(c.ch) = 0 THEN c
    ELSE IF key = Backspace
    THEN (IF Len(c.ch) > 1 THEN recursiveUndo(c) ELSE c)
    ELSE IF c.st = NULL THEN c
    ELSE AcceptInput(c, key, GetOptions(c.st, c))

\* the assignments of both initGame functions
Reset(c, initialState) ==
    [c EXCEPT !.cont = <<>>, !.st = initialState, !.ch = <<NewNode(initialState)>>]

\* initGame of engine.js: no drain; initialSetup(print) runs on the root
FnInitGame(c, initialState, setup) ==
    IF setup = "startScenario"
    THEN startScenario(Reset(c, initialState), "print")
    ELSE Reset(c, initialState)

\* Engine.initGame
ClsInitGame(c, initialState) == AutoTransition(Reset(c, initialState))

-----------------------------------------------------------------------------
(* The program's state as a cursor, and back *)

Cur == [eng |-> engine, st |-> currentState, ch |-> chain, cont |-> container,
        threw |-> FALSE]

SetCur(c) ==
    /\ currentState' = c.st
    /\ chain' = c.ch
    /\ container' = c.cont

\* before holds the cursor a simulator call started from
Snapshot == [st |-> currentState, ch |-> chain, cont |-> container]

NoSnapshot == [st |-> NULL, ch |-> <<>>, cont |-> <<>>]

Called(op, key, n, how) ==
    [op |-> op, key |-> key, n |-> n, depth |-> Len(chain), outcome |-> how,
     ends |-> <<>>]

NoCall ==
    [op |-> "none", key |-> "", n |-> -1, depth |-> 0, outcome |-> "none",
     ends |-> <<>>]

\* a handler ends with cursor c, by returning or by an exception that the
\* game's code raised ("threw") and nothing caught
Ends(op, key, c) ==
    /\ SetCur(c)
    /\ last' = Called(op, key, -1, IF c.threw THEN "threw" ELSE "returned")

NoReturn == [kind |-> "none"]
NullReturn == [kind |-> "null"]
MapReturn(m) == [kind |-> "map", map |-> m]

\* no call is running (and the chain has not outgrown the model)
Idle == sim = <<>> /\ Len(chain) <= MaxDepth

-----------------------------------------------------------------------------
(* What the environment does *)

Bundled == {"mod.StartState", "ttt.StartState"}

\* the initialSetup the caller passes to engine.js's initGame with this game
SetupOf(initialState) ==
    IF initialState = "mod.StartState" THEN "startScenario" ELSE "none"

FirstTwo(options) == {options[i] : i \in {i \in 1..Len(options) : i <= 2}}

\* The keys the model presses: Backspace, "x" (a token no state offers) and
\* per game some of the tokens its states offer; in tic-tac-toe "1" (an
\* occupied cell after the first move) and the two lowest empty cells.
PressedKeys ==
    {Backspace, "x"} \cup
    IF chain = <<>> THEN {}
    ELSE CASE chain[1].handler = "mod.StartState" -> {"2", "3", "4", "7"}
           [] chain[1].handler = "ttt.StartState" ->
                {"1"} \cup (IF currentState = "ttt.PlayerTurn"
                            THEN FirstTwo(TttTurnGetOptions(Cur)) ELSE {})
           [] OTHER -> {"a", "b", "c"}

CountEmpty(board) == Cardinality({i \in 1..9 : board[i] = 0})

\* The cursors from which the model starts rollouts (the game tree below
\* them is small enough to enumerate).
InSimScope(c) ==
    CASE c.st = "mod.PlayerTurn" ->
            CtxGet(c, "player_count") - HeadNode(c).activePlayer + 1 <= MaxSimTurns
      [] c.st = "ttt.PlayerTurn" -> CountEmpty(CtxGet(c, "board")) <= MaxSimEmpty
      [] c.st \in {"gen.Start", "gen.Turn", "gen.Last",
                   "bad.Start", "bad.Turn", "bad.Last"} -> TRUE
      [] OTHER -> FALSE

\* ... and per-option rollouts (in Modulo Sum: for the last player to move)
InOptScope(c) ==
    CASE c.st = "mod.PlayerTurn" ->
            CtxGet(c, "player_count") = HeadNode(c).activePlayer
      [] OTHER -> InSimScope(c)

-----------------------------------------------------------------------------
(* Actions: initGame and key presses.  One run of the model is one session: *)
(* initGame is called once.                                                *)

InitGame(initialState) ==
    /\ Idle
    /\ chain = <<>>
    /\ Ends("initGame", initialState,
            IF engine = "fn"
            THEN FnInitGame(Cur, initialState, SetupOf(initialState))
            ELSE ClsInitGame(Cur, initialState))
    /\ before' = NoSnapshot
    /\ ret' = NoReturn
    /\ UNCHANGED <<engine, sim>>

KeyDown(key) ==
    /\ Idle
    /\ Ends("keydown", key, handleGlobalKeydown(Cur, key))
    /\ before' = NoSnapshot
    /\ ret' = NoReturn
    /\ UNCHANGED <<engine, sim>>

-----------------------------------------------------------------------------
(* The simulator.  A call is a sequence of steps, one per loop iteration    *)
(* and per random draw; sim is its call stack (innermost frame last) and   *)
(* no other operation runs until the stack is empty again.                 *)

McFrame(simulations, c) ==
    [fn |-> "mc", simulations |-> simulations, i |-> 0, phase |-> "for",
     savedLen |-> Len(c.ch), savedState |-> c.st, results |-> <<>>]

\* (mutant: the wins are counted for player 1, whoever is active)
OptFrameFirstPlayer(simulationsPerOption, options) ==
    [fn |-> "opt", simulations |-> simulationsPerOption, k |-> 1,
     options |-> options, rootLen |-> Len(chain), rootState |-> currentState,
     activePlayer |-> 1, results |-> <<>>]

OptFrame(simulationsPerOption, options) ==
    [fn |-> "opt", simulations |-> simulationsPerOption, k |-> 1,
     options |-> options, rootLen |-> Len(chain), rootState |-> currentState,
     activePlayer |-> chain[Len(chain)].activePlayer, results |-> <<>>]

Top == sim[Len(sim)]

\* (mutant: a winner's count is set to 1 instead of incremented)
TallyOnce(results, w) ==
    [x \in (DOMAIN results) \cup {w} |-> IF x = w THEN 1 ELSE results[x]]

\* results[w] = (results[w] || 0) + 1
Tally(results, w) ==
    [x \in (DOMAIN results) \cup {w} |->
        IF x = w THEN (IF w \in DOMAIN results THEN results[w] ELSE 0) + 1
        ELSE results[x]]

\* (mutant: the wins of the other player, who is active in the hypothetical
\* node, are recorded)
WinsOfOther(simResults, p) ==
    LET q == IF p = 1 THEN 2 ELSE 1
    IN IF q \in DOMAIN simResults THEN simResults[q] ELSE 0

\* simResults[activePlayer] || 0
WinsOf(simResults, p) == IF p \in DOMAIN simResults THEN simResults[p] ELSE 0

\* results[opt] = n
Put(results, opt, n) ==
    [x \in (DOMAIN results) \cup {opt} |-> IF x = opt THEN n ELSE results[x]]

\* (mutant: the saved cursor is not put back)
RestoreForgotten(len, state) == Cur

\* stateHead = savedHead; currentState = savedState
Restore(len, state) == [Cur EXCEPT !.ch = SubSeq(chain, 1, len), !.st = state]

\* an uncaught exception ends the whole simulator call where it stands
Abort(how) ==
    /\ sim' = <<>>
    /\ last' = [last EXCEPT !.outcome = how]

\* (mutant: with no live session the call returns an empty mapping)
RunMonteCarloNoSentinel(simulations) ==
    /\ Idle
    /\ before' = Snapshot
    /\ UNCHANGED <<engine, container, currentState, chain>>
    /\ IF currentState = NULL \/ chain = <<>>
       THEN /\ ret' = MapReturn(<<>>)
            /\ last' = Called("runMonteCarlo", "", simulations, "returned")
            /\ sim' = sim
       ELSE /\ InSimScope(Cur)
            /\ sim' = <<McFrame(simulations, Cur)>>
            /\ last' = Called("runMonteCarlo", "", simulations, "running")
            /\ ret' = NoReturn

\* runMonteCarlo(simulations), called from outside
RunMonteCarlo(simulations) ==
    /\ Idle
    /\ before' = Snapshot
    /\ UNCHANGED <<engine, container, currentState, chain>>
    /\ IF currentState = NULL \/ chain = <<>>
       THEN /\ ret' = NullReturn
            /\ last' = Called("runMonteCarlo", "", simulations, "returned")
            /\ sim' = sim
       ELSE /\ InSimScope(Cur)
            /\ sim' = <<McFrame(simulations, Cur)>>
            /\ last' = Called("runMonteCarlo", "", simulations, "running")
            /\ ret' = NoReturn

\* runMonteCarlo returns results: to the outside, or into the loop body of
\* runOptionMonteCarlo (step 4), whose frame o is next on the stack
McReturn(f) ==
    IF Len(sim) = 1
    THEN /\ sim' = <<>>
         /\ ret' = MapReturn(f.results)
         /\ last' = [last EXCEPT !.outcome = "returned"]
    ELSE /\ sim' = <<[sim[1] EXCEPT
                        !.results = Put(@, sim[1].options[sim[1].k],
                                        WinsOf(f.results, sim[1].activePlayer)),
                        !.k = @ + 1]>>
         /\ UNCHANGED <<ret, last>>

\* runMonteCarlo's for loop: the next iteration starts from the saved cursor;
\* after the last one the cursor is restored and the results are returned
McFor ==
    /\ sim # <<>> /\ Top.fn = "mc" /\ Top.phase = "for"
    /\ SetCur(Restore(Top.savedLen, Top.savedState))
    /\ IF Top.i < Top.simulations
       THEN /\ sim' = [sim EXCEPT ![Len(sim)].phase = "while"]
            /\ UNCHANGED <<ret, last>>
       ELSE McReturn(Top)
    /\ UNCHANGED <<engine, before>>

\* (mutant: the draw may also be the token "1", offered or not)
DrawsOrOne(options) ==
    IF Len(options) = 0 THEN {NULL} ELSE SeqToSet(options) \cup {"1"}

\* what Math.random can pick: null for no option, else any of the options
Draws(options) == IF Len(options) = 0 THEN {NULL} ELSE SeqToSet(options)

McStepped(c) ==
    /\ SetCur(c)
    /\ IF c.threw THEN Abort("threw") ELSE UNCHANGED <<sim, last>>

\* one more occurrence of x in the bag
Counted(bag, x) ==
    [y \in (DOMAIN bag) \cup {x} |->
        (IF y \in DOMAIN bag THEN bag[y] ELSE 0) + (IF y = x THEN 1 ELSE 0)]

\* how a rollout ended, as last.ends records it: the winner field of its
\* terminal node in a runMonteCarlo call; in a runOptionMonteCarlo call the
\* option being tried and whether that winner is the player who was active
\* at the call
RolloutEnd(w) ==
    IF Len(sim) = 1 THEN w
    ELSE <<sim[1].options[sim[1].k], w = before.ch[Len(before.ch)].activePlayer>>

\* (mutant: the loop counter does not advance after a rollout)
McTallyNoCount(w) ==
    /\ sim' = [sim EXCEPT ![Len(sim)].phase = "for",
                          ![Len(sim)].results = IF w # -1 THEN Tally(@, w) ELSE @]
    /\ last' = [last EXCEPT !.ends = Counted(@, RolloutEnd(w))]
    /\ UNCHANGED <<container, currentState, chain>>

\* the tally after the while loop
McTally(w) ==
    /\ sim' = [sim EXCEPT ![Len(sim)].phase = "for",
                          ![Len(sim)].i = @ + 1,
                          ![Len(sim)].results = IF w # -1 THEN Tally(@, w) ELSE @]
    /\ last' = [last EXCEPT !.ends = Counted(@, RolloutEnd(w))]
    /\ UNCHANGED <<container, currentState, chain>>

\* runMonteCarlo's while loop: one simulated transition on a uniformly drawn
\* option, or the end of the rollout
McWhile ==
    /\ sim # <<>> /\ Top.fn = "mc" /\ Top.phase = "while"
    /\ IF currentState # NULL
       THEN \E input \in Draws(GetOptions(currentState, Cur)) :
                McStepped(Step(Cur, input, "noop"))
       ELSE McTally(chain[Len(chain)].winner)
    /\ UNCHANGED <<engine, ret, before>>

\* (mutant: with no active player the call returns an empty mapping)
RunOptionMonteCarloNoSentinel(simulationsPerOption) ==
    /\ Idle
    /\ before' = Snapshot
    /\ UNCHANGED <<engine, container, currentState, chain>>
    /\ IF currentState = NULL \/ chain = <<>>
       THEN /\ ret' = NullReturn
            /\ last' = Called("runOptionMonteCarlo", "", simulationsPerOption, "returned")
            /\ sim' = sim
       ELSE IF chain[Len(chain)].activePlayer = -1
       THEN /\ ret' = MapReturn(<<>>)
            /\ last' = Called("runOptionMonteCarlo", "", simulationsPerOption, "returned")
            /\ sim' = sim
       ELSE /\ InOptScope(Cur)
            /\ sim' = <<OptFrame(simulationsPerOption, GetOptions(currentState, Cur))>>
            /\ last' = Called("runOptionMonteCarlo", "", simulationsPerOption, "running")
            /\ ret' = NoReturn

\* runOptionMonteCarlo(simulationsPerOption), called from outside
RunOptionMonteCarlo(simulationsPerOption) ==
    /\ Idle
    /\ before' = Snapshot
    /\ UNCHANGED <<engine, container, currentState, chain>>
    /\ IF currentState = NULL \/ chain = <<>> \/ chain[Len(chain)].activePlayer = -1
       THEN /\ ret' = NullReturn
            /\ last' = Called("runOptionMonteCarlo", "", simulationsPerOption, "returned")
            /\ sim' = sim
       ELSE /\ InOptScope(Cur)
            /\ sim' = <<OptFrame(simulationsPerOption, GetOptions(currentState, Cur))>>
            /\ last' = Called("runOptionMonteCarlo", "", simulationsPerOption, "running")
            /\ ret' = NoReturn

\* steps 2 to 4 of the loop body, c being the cursor after the option was
\* applied: runMonteCarlo returns null when c has no current state, and
\* simResults[activePlayer] is then a TypeError
OptApplied(c) ==
    /\ SetCur(c)
    /\ IF c.threw THEN Abort("threw")
       ELSE IF c.st = NULL THEN Abort("TypeError")
       ELSE /\ sim' = Append(sim, McFrame(Top.simulations, c))
            /\ UNCHANGED last
    /\ UNCHANGED ret

\* runOptionMonteCarlo's for loop, and the final restore after it
OptFor ==
    /\ sim # <<>> /\ Top.fn = "opt"
    /\ IF Top.k <= Len(Top.options)
       THEN OptApplied(Step(Restore(Top.rootLen, Top.rootState),
                            Top.options[Top.k], "noop"))
       ELSE /\ SetCur(Restore(Top.rootLen, Top.rootState))
            /\ sim' = <<>>
            /\ ret' = MapReturn(Top.results)
            /\ last' = [last EXCEPT !.outcome = "returned"]
    /\ UNCHANGED <<engine, before>>

-----------------------------------------------------------------------------
(* Specifications *)

Init ==
    /\ engine \in {"fn", "cls"}
    /\ container = <<>>
    /\ currentState = NULL
    /\ chain = <<>>
    /\ sim = <<>>
    /\ ret = NoReturn
    /\ last = NoCall
    /\ before = NoSnapshot

Simulate ==
    \/ \E n \in 0..MaxSims : RunMonteCarlo(n)
    \/ \E n \in 0..MaxOptSims : RunOptionMonteCarlo(n)
    \/ McFor
    \/ McWhile
    \/ OptFor

Play == \E key \in PressedKeys : KeyDown(key)

\* the bundled games
Next ==
    \/ \E s \in Bundled : InitGame(s)
    \/ Play
    \/ Simulate

Spec == Init /\ [][Next]_vars

\* the bundled games and the further game "gen"
NextAny ==
    \/ \E s \in Bundled \cup {"gen.Start"} : InitGame(s)
    \/ Play
    \/ Simulate

SpecAny == Init /\ [][NextAny]_vars

\* the games "gen" and "bad", whose processOption can raise an exception
NextFail ==
    \/ \E s \in {"gen.Start", "bad.Start"} : InitGame(s)
    \/ Play
    \/ Simulate

SpecFail == Init /\ [][NextFail]_vars

\* live play of the bundled games alone: inputs and undos, no simulation
NextLive ==
    \/ \E s \in Bundled : InitGame(s)
    \/ Play

SpecLive == Init /\ [][NextLive]_vars

\* get by itself: on any chain of nodes whose stores hold some of two keys,
\* the program calls get on a node with a key
GetKeys == {"current_sum", "board"}

Stores == UNION {[S -> 0..1] : S \in SUBSET GetKeys}

Chains ==
    UNION {[1..n -> {[NewNode(NULL) EXCEPT !.kvs = kvs] : kvs \in Stores}] :
              n \in 1..MaxChain}

InitGet ==
    /\ engine \in {"fn", "cls"}
    /\ container = <<>>
    /\ currentState = NULL
    /\ chain \in Chains
    /\ sim = <<>>
    /\ ret = NoReturn
    /\ last = NoCall
    /\ before = NoSnapshot

Get(i, key) ==
    /\ ret' = [kind |-> "value", value |-> NodeGet(engine, chain, i, key)]
    /\ last' = Called("get", key, i, "returned")
    /\ UNCHANGED <<engine, container, currentState, chain, sim, before>>

NextGet == \E i \in 1..Len(chain) : \E key \in GetKeys \cup {"no_such_key"} : Get(i, key)

SpecGet == InitGet /\ [][NextGet]_vars

-----------------------------------------------------------------------------
(* Properties *)

StoreKeys == {"player_count", "current_sum", "board", "winner_id"}

\* the option list the current state reports at the head
Options == GetOptions(currentState, Cur)

WaitsForInput == currentState # NULL /\ Len(Options) >= 2

PressedLast(key) == last.op = "keydown" /\ last.key = key

Unchanged(snapshot) ==
    /\ chain = snapshot.ch
    /\ currentState = snapshot.st
    /\ \A key \in StoreKeys :
          CtxLookup(Cur, key) = NodeGet(engine, snapshot.ch, Len(snapshot.ch), key)

\* C1: when runMonteCarlo(N) returns in a live session, the head node, the
\* current state, every value visible through get at the head and every
\* node of the head's ancestor chain (store, activePlayer, winner) are the
\* ones from before the call.
C1_SimulationNonInterference ==
    (last.op = "runMonteCarlo" /\ last.outcome = "returned" /\ ret.kind = "map")
        => Unchanged(before)

C1_Witness ==
    /\ last.op = "runMonteCarlo" /\ last.outcome = "returned" /\ last.n >= 2
    /\ ret.kind = "map" /\ DOMAIN ret.map # {}
    /\ Len(chain) > 2 /\ Unchanged(before)

\* C2: however a runOptionMonteCarlo call ends, the head node and the
\* current state are the ones from before the call, also when applying an
\* option returns null.
C2_OptionSimReadOnly ==
    (last.op = "runOptionMonteCarlo"
        /\ last.outcome \in {"returned", "threw", "TypeError"})
        => (chain = before.ch /\ currentState = before.st)

\* C3: when a processOption call fails during a rollout of runMonteCarlo or
\* runOptionMonteCarlo, the head node and the current state are still the
\* ones from before the simulator call.
C3_ExceptionSafe ==
    (last.op \in {"runMonteCarlo", "runOptionMonteCarlo"} /\ last.outcome = "threw")
        => (chain = before.ch /\ currentState = before.st)

\* C4: when an undo (Backspace) returns, the head is the root or the current
\* state is non-null and reports at least two options at the head.
C4_UndoLanding ==
    (PressedLast(Backspace) /\ last.outcome = "returned" /\ chain # <<>>)
        => (Len(chain) = 1 \/ WaitsForInput)

\* an undo that stepped back over at least two nodes and stopped above the root
C4_Witness ==
    /\ PressedLast(Backspace) /\ last.outcome = "returned"
    /\ Len(chain) > 1 /\ last.depth > Len(chain) + 1
    /\ WaitsForInput

\* C5: after an undo that changed the cursor, the current state reports at
\* least two options at the head.
C5_UndoLandsOnChoice ==
    (PressedLast(Backspace) /\ last.outcome = "returned" /\ Len(chain) # last.depth)
        => WaitsForInput

\* C6: Backspace pressed while the head has no parent leaves the head, the
\* current state, every node and the rendered output unchanged and raises
\* no error.
C6_UndoAtRootNoOp ==
    [][(last'.op = "keydown" /\ last'.key = Backspace /\ Len(chain) = 1)
          => (UNCHANGED <<chain, currentState, container>>
                /\ last'.outcome = "returned")]_vars

C6_Witness ==
    PressedLast(Backspace) /\ last.depth = 1 /\ Len(chain) = 1 /\ container # <<>>

\* C7: in Modulo Sum, Backspace pressed with the head on the node of the
\* player-count selection brings the head back to the root with the
\* player-count state current and player_count and current_sum no longer
\* visible; Backspace pressed again changes nothing.
C7_ScenarioC ==
    [][(last'.op = "keydown" /\ last'.key = Backspace /\ chain # <<>>
            /\ chain[1].handler = "mod.StartState")
          => /\ Len(chain) = 2 =>
                   /\ Len(chain') = 1
                   /\ currentState' = "mod.StartState"
                   /\ NodeGet(engine, chain', 1, "player_count") = <<>>
                   /\ NodeGet(engine, chain', 1, "current_sum") = <<>>
             /\ Len(chain) = 1 => UNCHANGED <<chain, currentState, container>>]_vars

C7_Witness ==
    /\ chain # <<>> /\ chain[1].handler = "mod.StartState"
    /\ PressedLast(Backspace) /\ last.depth = 2
    /\ Len(chain) = 1 /\ currentState = "mod.StartState"

\* C8: a key other than Backspace that is not in the current state's option
\* list makes no transition, creates no node and leaves the head, the
\* current state, all scoped data and the rendered output unchanged.
C8_IllegalInputIgnored ==
    [][(last'.op = "keydown" /\ last'.key # Backspace
            /\ chain # <<>> /\ currentState # NULL
            /\ ~Includes(Options, last'.key))
          => UNCHANGED <<chain, currentState, container>>]_vars

\* an illegal key was pressed in mid-game: a token no state offers, or one
\* that other positions offer
C8_Witness ==
    /\ last.op = "keydown" /\ last.key \in {"1", "7"}
    /\ Len(chain) > 1 /\ last.depth = Len(chain)
    /\ currentState # NULL /\ ~Includes(Options, last.key)

\* C9: when initGame of engine.js returns, the chain is a fresh root and the
\* current state is null or reports at least two options.
C9_InitDrains ==
    (engine = "fn" /\ last.op = "initGame")
        => (chain[1].kvs = <<>> /\ (currentState = NULL \/ WaitsForInput))

\* the node processOption leaves for state s and input on top of the first
\* n nodes of the chain (store, activePlayer, winner)
Entered(s, n, input) ==
    LET h == HeadNode(Step([Cur EXCEPT !.ch = SubSeq(chain, 1, n), !.st = s],
                           input, "noop"))
    IN <<h.kvs, h.activePlayer, h.winner>>

\* the nodes of the chain made from a state that reported at most one option
\* are the ones made with input null, or with the single option
AutoEntered ==
    \A n \in 2..Len(chain) :
        LET s == chain[n].handler
            options == GetOptions(s, [Cur EXCEPT !.ch = SubSeq(chain, 1, n - 1)])
        IN Len(options) <= 1 =>
              <<chain[n].kvs, chain[n].activePlayer, chain[n].winner>>
                  = Entered(s, n - 1, AutoInput(options))

\* C10: when initGame of the Engine class or an accepted input (of either
\* draft) returns, currentState is null or reports at least two options at
\* the head; the states with no option were advanced with input null and
\* the states with one option with that option.
C10_WaitsOnlyAtChoice ==
    (last.outcome = "returned"
        /\ \/ engine = "cls" /\ last.op = "initGame"
           \/ last.op = "keydown" /\ last.key # Backspace /\ Len(chain) > last.depth)
        => ((currentState = NULL \/ WaitsForInput) /\ AutoEntered)

\* the Engine class's initGame drained a start state that reports no option
C10_Witness ==
    /\ engine = "cls" /\ last.op = "initGame" /\ last.outcome = "returned"
    /\ Len(chain) > 1 /\ WaitsForInput

\* the value stored under key by the nearest node at or below position i
\* of the chain whose own store has the key
NearestWith(ch, i, key) ==
    LET S == {j \in 1..i : Has(ch[j].kvs, key)}
    IN IF S = {} THEN <<>>
       ELSE <<ch[CHOOSE j \in S : \A k \in S : k <= j].kvs[key]>>

LookupKeys == StoreKeys \cup {"no_such_key"}

\* C11: for every node of a chain and every key, get returns the value
\* stored by the nearest node on the path to the root (the node included)
\* whose own store has the key, and undefined when none has; the recursive
\* get of engine.js and the loop get of the Engine class agree.
C11_AncestorLookup ==
    /\ \A i \in 1..Len(chain) : \A key \in LookupKeys :
          /\ RecGet(chain, i, key) = NearestWith(chain, i, key)
          /\ LoopGet(chain, i, key) = RecGet(chain, i, key)
    /\ last.op = "get" => ret.value = NearestWith(chain, last.n, last.key)

\* get on a node without the key whose parent has it, with another value
\* stored farther down; and a key that no node has
C11_Witness ==
    LET i == last.n
        key == last.key
    IN /\ last.op = "get" /\ i >= 3 /\ key \in GetKeys
       /\ ~Has(chain[i].kvs, key) /\ Has(chain[i - 1].kvs, key)
       /\ \E j \in 1..(i - 2) :
             Has(chain[j].kvs, key) /\ chain[j].kvs[key] # chain[i - 1].kvs[key]
       /\ ret.value = <<chain[i - 1].kvs[key]>>
       /\ RecGet(chain, i, "no_such_key") = <<>>

\* the fields of a node that a GameContext writes
NodeData(node) == <<node.kvs, node.activePlayer, node.winner>>

\* the head on which the nodes of the coming step are allocated: the saved
\* root head in runOptionMonteCarlo's loop, else the current head
AllocBase ==
    IF sim # <<>> /\ Top.fn = "opt" /\ Top.k <= Len(Top.options)
    THEN Top.rootLen ELSE Len(chain)

\* C12: in every step (live or simulated) the store, activePlayer and winner
\* of every node that stays on the chain, other than the nodes the step
\* allocates, are unchanged, and so is the board visible at each of them.
C12_AncestorsNotMutated ==
    [][\A i \in 1..AllocBase :
          i <= Len(chain') =>
             /\ NodeData(chain'[i]) = NodeData(chain[i])
             /\ NodeGet(engine, chain', i, "board") = NodeGet(engine, chain, i, "board")]_vars

\* an accepted tic-tac-toe move whose node holds another board than its parent
C12_Witness ==
    /\ last.op = "keydown" /\ last.outcome = "returned" /\ Len(chain) > last.depth
    /\ last.depth >= 3
    /\ Has(chain[last.depth].kvs, "board") /\ Has(chain[last.depth + 1].kvs, "board")
    /\ chain[last.depth].kvs["board"] # chain[last.depth + 1].kvs["board"]
    /\ \E i \in 1..9 : chain[last.depth].kvs["board"][i] # 0

\* the sum of the values of a mapping over the keys in S
RECURSIVE SumOver(_, _)
SumOver(f, S) ==
    IF S = {} THEN 0
    ELSE LET x == CHOOSE y \in S : TRUE IN f[x] + SumOver(f, S \ {x})

Total(f) == SumOver(f, DOMAIN f)

McReturnedMap ==
    last.op = "runMonteCarlo" /\ last.outcome = "returned" /\ ret.kind = "map"

\* C13: the values of the mapping runMonteCarlo(N) returns add up to the
\* number of its N rollouts whose terminal node has winner # -1 (each winner
\* mapped to the number of rollouts it won), which is at most N and less
\* than N when a rollout ended without a winner; no value is 0, and the
\* mapping is empty when no rollout declared a winner.
C13_OutcomeTotals ==
    McReturnedMap =>
        /\ Total(last.ends) = last.n
        /\ DOMAIN ret.map = DOMAIN last.ends \ {-1}
        /\ \A w \in DOMAIN ret.map : ret.map[w] = last.ends[w] /\ ret.map[w] > 0
        /\ Total(ret.map) = SumOver(last.ends, DOMAIN last.ends \ {-1})
        /\ Total(ret.map) <= last.n
        /\ -1 \in DOMAIN last.ends => Total(ret.map) < last.n

\* two rollouts, one drawn and one won
C13_Witness ==
    /\ McReturnedMap /\ last.n = 2
    /\ -1 \in DOMAIN last.ends /\ Total(ret.map) = 1

\* the cursor and the rendered output are the ones of the snapshot
SameCursor(snapshot) ==
    chain = snapshot.ch /\ currentState = snapshot.st /\ container = snapshot.cont

\* C14: a runMonteCarlo call returns null exactly when it was made with no
\* live session (before initGame, or with currentState null), and then
\* leaves the cursor unchanged; made in a live session it returns a mapping.
C14_UnavailableIffNotLive ==
    (last.op = "runMonteCarlo" /\ last.outcome = "returned") =>
        /\ ret.kind \in {"null", "map"}
        /\ ret.kind = "null" <=> (before.st = NULL \/ before.ch = <<>>)
        /\ ret.kind = "null" => SameCursor(before) /\ sim = <<>>

\* runMonteCarlo called after the game has ended
C14_Witness ==
    /\ last.op = "runMonteCarlo" /\ last.outcome = "returned" /\ ret.kind = "null"
    /\ Len(chain) > 1 /\ currentState = NULL /\ SameCursor(before)

\* C15: a runOptionMonteCarlo call made while the head's activePlayer is -1
\* returns null at once, makes no transition and leaves the cursor
\* unchanged.
C15_NoActivePlayerUnavailable ==
    (last.op = "runOptionMonteCarlo" /\ before.ch # <<>>
        /\ before.ch[Len(before.ch)].activePlayer = -1) =>
        /\ last.outcome = "returned" /\ ret.kind = "null"
        /\ SameCursor(before) /\ sim = <<>>

\* the call made at the root, in the setup state of a live session
C15_Witness ==
    /\ last.op = "runOptionMonteCarlo" /\ last.outcome = "returned"
    /\ Len(chain) = 1 /\ currentState # NULL /\ chain[1].activePlayer = -1
    /\ ret.kind = "null" /\ SameCursor(before)

\* the cursor a simulator call started from
BeforeCursor ==
    [eng |-> engine, st |-> before.st, ch |-> before.ch, cont |-> before.cont,
     threw |-> FALSE]

Ended(x) == IF x \in DOMAIN last.ends THEN last.ends[x] ELSE 0

\* while the rollouts for an option run, the chain is the chain of the call
\* with, on top, the node that applying the option alone makes, and the
\* rollouts' nodes above it
AboveOption(o) ==
    /\ Len(chain) > Len(before.ch)
    /\ SubSeq(chain, 1, Len(before.ch)) = before.ch
    /\ chain[Len(before.ch) + 1] = HeadNode(Step(BeforeCursor, o, "noop"))

\* C16: runOptionMonteCarlo(n), called with active player p, runs the
\* rollouts for option o from the node that applying o alone makes, and
\* returns a mapping whose keys are the options of the current state and
\* whose value for o is the number of the n rollouts for o that ended with
\* winner p (the player active at the call), a number in 0..n.
C16_OptionWinCounts ==
    /\ (last.op = "runOptionMonteCarlo" /\ Len(sim) = 2)
          => AboveOption(sim[1].options[sim[1].k])
    /\ (last.op = "runOptionMonteCarlo" /\ last.outcome = "returned"
            /\ ret.kind = "map")
          => /\ DOMAIN ret.map = SeqToSet(GetOptions(before.st, BeforeCursor))
             /\ \A o \in DOMAIN ret.map :
                   /\ ret.map[o] = Ended(<<o, TRUE>>)
                   /\ Ended(<<o, TRUE>>) + Ended(<<o, FALSE>>) = last.n
                   /\ ret.map[o] \in 0..last.n

\* a call whose player wins the rollout of one option and not of another
C16_Witness ==
    /\ last.op = "runOptionMonteCarlo" /\ last.outcome = "returned"
    /\ ret.kind = "map" /\ last.n >= 1
    /\ \E o1, o2 \in DOMAIN ret.map :
          /\ ret.map[o1] = last.n /\ ret.map[o2] = 0
          /\ Ended(<<o2, FALSE>>) = last.n

ModSession == chain # <<>> /\ chain[1].handler = "mod.StartState"

\* the last operation was a key press that the game accepted
AcceptedKey ==
    last.op = "keydown" /\ last.key # Backspace /\ last.outcome = "returned"
        /\ Len(chain) > last.depth

\* C17: in Modulo Sum the accepted player count n is stored with sum 0; the
\* accepted input of turn t < n adds its value to the sum and leaves the
\* game waiting for the next player; the accepted input of turn n ends the
\* game (currentState null) with the head's winner ((v1+...+vn) mod n) + 1,
\* a player id in 1..n; with n = 2 and inputs 3, 4 the winner is player 2.
C17_ScenarioA ==
    (ModSession /\ AcceptedKey) =>
        LET d == last.depth
            v == ParseInt(last.key)
            n == chain[2].kvs["player_count"]
        IN /\ d = 1 => /\ n = v /\ chain[2].kvs["current_sum"] = 0
                       /\ Len(chain) = 2 /\ currentState = "mod.PlayerTurn"
           /\ d > 1 => chain[d + 1].kvs["current_sum"] = chain[d].kvs["current_sum"] + v
           /\ (d > 1 /\ d - 1 < n) =>
                 Len(chain) = d + 1 /\ currentState = "mod.PlayerTurn"
           /\ (d > 1 /\ d - 1 >= n) =>
                 /\ d - 1 = n /\ Len(chain) = d + 2 /\ currentState = NULL
                 /\ chain[d + 2].winner = ((chain[d].kvs["current_sum"] + v) % n) + 1
                 /\ chain[d + 2].winner \in 1..n
                 /\ (n = 2 /\ chain[3].kvs["current_sum"] = 3 /\ v = 4)
                       => chain[d + 2].winner = 2

\* two players, inputs 3 and 4: the game is over and player 2 has won
C17_Witness ==
    /\ ModSession /\ AcceptedKey /\ last.key = "4" /\ last.depth = 3
    /\ chain[2].kvs["player_count"] = 2
    /\ chain[3].kvs["current_sum"] = 3 /\ chain[4].kvs["current_sum"] = 7
    /\ currentState = NULL /\ chain[Len(chain)].winner = 2

TttSession == chain # <<>> /\ chain[1].handler = "ttt.StartState"

\* the eight lines of the board, as sets of cells 1..9
BoardLines ==
    {{1, 2, 3}, {4, 5, 6}, {7, 8, 9}, {1, 4, 7}, {2, 5, 8}, {3, 6, 9},
     {1, 5, 9}, {3, 5, 7}}

HoldsLine(board, p) == \E line \in BoardLines : \A i \in line : board[i] = p

\* the accepted move completed a line of the player who made it, and ended
\* the game for that player within the call
WinEndsGame ==
    LET d == last.depth
        p == chain[d].activePlayer
    IN HoldsLine(chain[d + 1].kvs["board"], p) =>
          currentState = NULL /\ Len(chain) = d + 2 /\ chain[d + 2].winner = p

\* a finished game (live or simulated): its winner holds a line of the final
\* board, and without a winner the board is full and nobody holds a line
FinishedFairly ==
    LET board == NearestWith(chain, Len(chain), "board")[1]
        w == chain[Len(chain)].winner
    IN /\ w # -1 => w \in {1, 2} /\ HoldsLine(board, w)
       /\ w = -1 => /\ \A i \in 1..9 : board[i] # 0
                    /\ ~HoldsLine(board, 1) /\ ~HoldsLine(board, 2)

TttOutcome ==
    /\ (TttSession /\ AcceptedKey) => WinEndsGame
    /\ (TttSession /\ currentState = NULL
           /\ chain[Len(chain)].handler = "ttt.EndGame") => FinishedFairly

\* C18: in tic-tac-toe the accepted input whose mark completes a line ends
\* the game within the same call (currentState null, the head's winner is
\* the player who made it), and every further input token is ignored; a
\* finished game has winner p only if p holds a line of the final board and
\* winner -1 only if the board is full with no complete line.
C18_ScenarioB ==
    [][/\ TttOutcome'
       /\ (TttSession /\ currentState = NULL /\ sim = <<>>
              /\ last'.op = "keydown" /\ last'.key # Backspace)
            => UNCHANGED <<chain, currentState, container>>]_vars

\* a game won in live play, and a cell key pressed after it
C18_Witness ==
    /\ TttSession /\ currentState = NULL /\ FinishedFairly
    /\ chain[Len(chain)].winner \in {1, 2}
    /\ last.op = "keydown" /\ last.key = "1" /\ last.depth = Len(chain)

\* C19: a key press (an input token or Backspace) made before initGame, or
\* while the cursor has no current state, leaves the head, the current
\* state, the history nodes and the rendered output unchanged.
C19_NoSessionNoOp ==
    [][(last'.op = "keydown" /\ (chain = <<>> \/ currentState = NULL))
          => UNCHANGED <<chain, currentState, container>>]_vars

\* the elements of the nodes from position i of the chain upwards, in order
RECURSIVE ElementsFrom(_, _)
ElementsFrom(ch, i) ==
    IF i > Len(ch) THEN <<>> ELSE ch[i].elements \o ElementsFrom(ch, i + 1)

\* the line with which a state of the bundled games echoes an accepted input
Echo(state, key, p) ==
    IF state = "ttt.PlayerTurn"
    THEN "> Player " \o ToString(p) \o " chose " \o ToString(ParseInt(key) - 1)
    ELSE "> " \o key

\* during a simulator call, and when it has ended, the container and the
\* elements of the nodes of the call's chain are the ones from before the
\* call, and the nodes made since have no element
SilentSimulation ==
    last.op \in {"runMonteCarlo", "runOptionMonteCarlo"} =>
        /\ container = before.cont
        /\ \A i \in 1..Len(chain) :
              chain[i].elements =
                 IF i <= Len(before.ch) THEN before.ch[i].elements ELSE <<>>

\* the step is an accepted input: what it logs is appended to the container
\* and to the nodes it allocates, the echo of the input first in the first
\* of them, every element being a new one
LoggedToNewNodes ==
    LET d == Len(chain)
        new == ElementsFrom(chain', d + 1)
    IN /\ \A i \in 1..d : chain'[i].elements = chain[i].elements
       /\ container' = container \o new
       /\ \A i \in 1..Len(new) : \A j \in 1..Len(container) : new[i].id # container[j].id
       /\ \A i \in (d + 1)..Len(chain') : chain'[i].elements # <<>>
       /\ chain'[d + 1].elements[1].text
             = Echo(currentState, last'.key, chain[d].activePlayer)

\* C20: what processOption logs during a live transition is appended to the
\* elements of the node that transition allocated (and to the container);
\* during runMonteCarlo and runOptionMonteCarlo no element is added to the
\* container or to any node.
C20_LogAttribution ==
    [][/\ SilentSimulation'
       /\ (last'.op = "keydown" /\ Len(chain') > Len(chain)) => LoggedToNewNodes]_vars

\* an accepted input that ended the game: two nodes, each with its lines
C20_Witness ==
    /\ AcceptedKey /\ Len(chain) = last.depth + 2 /\ last.depth > 1
    /\ chain[last.depth + 1].elements # <<>> /\ chain[Len(chain)].elements # <<>>
    /\ container = ElementsFrom(chain, 1)

\* the step is an initGame or an accepted input: it allocated nodes
LiveAdvance ==
    last'.op \in {"initGame", "keydown"} /\ chain' # <<>>
        /\ Len(chain') > (IF last'.op = "initGame" THEN 1 ELSE Len(chain))

\* the first node of the step that an auto-transition made: all nodes above
\* the root for initGame, all after the input's node for an accepted input
FirstAuto == IF last'.op = "initGame" THEN 2 ELSE Len(chain) + 2

\* the state that processOption returned for node n of the new chain
ReturnedAt(n) == IF n < Len(chain') THEN chain'[n + 1].handler ELSE currentState'

\* C21: in the bundled games the drain after initGame or an accepted input
\* halts: it makes at most two auto-transitions (the last free cell, the end
\* of the game), ends at the end of the game or at a state with two or more
\* options, and no auto-advanced state hands itself back.
C21_DrainHalts ==
    [][LiveAdvance =>
          /\ Len(chain') - FirstAuto + 1 <= 2
          /\ \A n \in FirstAuto..Len(chain') : ReturnedAt(n) # chain'[n].handler
          /\ (engine = "cls" \/ last'.op = "keydown") =>
                (currentState' = NULL \/ Len(GetOptions(currentState', Cur')) >= 2)]_vars

\* an accepted input after which the last free cell and the end of the game
\* were played automatically
C21_Witness ==
    /\ TttSession /\ AcceptedKey /\ Len(chain) = last.depth + 3
    /\ chain[last.depth + 2].handler = "ttt.PlayerTurn"
    /\ chain[last.depth + 3].handler = "ttt.EndGame" /\ currentState = NULL

\* C22: an undo returns after moving the head back along the parent links
\* by at most the head's depth below the root: the new chain is an initial
\* part of the old one and keeps the root.
C22_UndoTerminates ==
    [][(last'.op = "keydown" /\ last'.key = Backspace /\ chain # <<>>)
          => /\ last'.outcome = "returned"
             /\ 1 <= Len(chain') /\ Len(chain') <= Len(chain)
             /\ Len(chain) - Len(chain') <= Len(chain) - 1
             /\ chain' = SubSeq(chain, 1, Len(chain'))]_vars

\* an undo that went back three nodes
C22_Witness ==
    /\ PressedLast(Backspace) /\ last.outcome = "returned"
    /\ last.depth - Len(chain) >= 3 /\ Len(chain) >= 1

\* the cursor that Backspace, pressed at cursor c, leaves
UndoFrom(c) == handleGlobalKeydown(c, Backspace)

Undone == UndoFrom(Cur)

\* C23: an accepted input followed by one undo restores the cursor from
\* which the input was given: the same chain up to the same head, the same
\* current state, the same visible data and the same rendered output,
\* however many auto-transitions the input triggered.
C23_InputUndoRoundTrip ==
    [][(last'.op = "keydown" /\ last'.key # Backspace /\ Len(chain') > Len(chain))
          => \A u \in {UndoFrom(Cur')} :
                /\ u.ch = chain
                /\ u.st = currentState
                /\ u.cont = container
                /\ \A key \in StoreKeys : CtxLookup(u, key) = CtxLookup(Cur, key)]_vars

\* an accepted input that triggered an auto-transition and that an undo
\* takes back as a whole
C23_Witness ==
    /\ AcceptedKey /\ Len(chain) >= last.depth + 2
    /\ Len(Undone.ch) = last.depth /\ Undone.st \in {"mod.PlayerTurn", "ttt.PlayerTurn"}
    /\ Len(Undone.cont) < Len(container)
    /\ Len(GetOptions(Undone.st, Undone)) >= 2

BundledSession == chain # <<>> /\ chain[1].handler \in Bundled

\* Backspace is pressed on a finished game
UndoOfFinished ==
    /\ last'.op = "keydown" /\ last'.key = Backspace
    /\ BundledSession /\ currentState = NULL

\* the state that was current while node j of the chain was the head
StateAt(j) == IF j < Len(chain) THEN chain[j + 1].handler ELSE currentState

\* the number of options that state reported there
OptionsAt(j) ==
    Len(GetOptions(StateAt(j), [Cur EXCEPT !.st = StateAt(j), !.ch = SubSeq(chain, 1, j)]))

\* C24: in both bundled games one undo from a finished game (currentState
\* null) steps back over the end node and every auto-played move and lands
\* at the last position where a player chose: the state is non-null and
\* reports two or more options, the head carries no winner, and an input
\* is accepted again.
C24_UndoRevives ==
    [][UndoOfFinished =>
          /\ Len(chain') < Len(chain) /\ chain' = SubSeq(chain, 1, Len(chain'))
          /\ currentState' # NULL
          /\ \A o \in {GetOptions(currentState', Cur')} :
                /\ Len(o) >= 2
                /\ \E i \in 1..Len(o) :
                      \A c \in {handleGlobalKeydown(Cur', o[i])} :
                          Len(c.ch) > Len(chain') /\ SubSeq(c.ch, 1, Len(chain')) = chain'
          /\ chain'[Len(chain')].winner = -1
          /\ \A j \in (Len(chain') + 1)..(Len(chain) - 1) : OptionsAt(j) <= 1]_vars

\* a tic-tac-toe game whose last cell was auto-played has been undone: the
\* undo went back over the end node, the auto-played move and the move
\* before it
C24_Witness ==
    /\ PressedLast(Backspace) /\ TttSession /\ last.depth - Len(chain) = 3
    /\ currentState = "ttt.PlayerTurn" /\ Len(Options) = 2
    /\ chain[Len(chain)].winner = -1

\* what a cursor shows of the game: the kind of the current state, the
\* data visible at the head, and the head's activePlayer and winner
Shown(c) ==
    <<c.st, [key \in StoreKeys |-> CtxLookup(c, key)],
      HeadNode(c).activePlayer, HeadNode(c).winner>>

\* a finished tic-tac-toe game on whose final board nobody holds a line
DrawnBoard(ch, st) ==
    /\ ch # <<>> /\ ch[1].handler = "ttt.StartState"
    /\ st = NULL /\ ch[Len(ch)].handler = "ttt.EndGame"
    /\ \A b \in {NearestWith(ch, Len(ch), "board")[1]} :
          ~HoldsLine(b, 1) /\ ~HoldsLine(b, 2)

\* C25: after a prefix of inputs, an input a, one undo and an input b (valid
\* where a was given), the state kind, the visible data, activePlayer and
\* winner are those reached by the prefix and b alone; in tic-tac-toe the
\* winner_id that an undone winning move wrote is not visible after the
\* undo, and a game that ends drawn ends without a winner.
C25_HistoryIndependence ==
    [][/\ (last'.op = "keydown" /\ last'.key # Backspace /\ Len(chain') > Len(chain))
          => \A u \in {UndoFrom(Cur')} :
                /\ \A b \in SeqToSet(Options) :
                      \A c \in {handleGlobalKeydown(u, b)} :
                          \A d \in {handleGlobalKeydown(Cur, b)} : Shown(c) = Shown(d)
                /\ TttSession => CtxLookup(u, "winner_id") = <<>>
       /\ DrawnBoard(chain', currentState') => chain'[Len(chain')].winner = -1]_vars

\* a winning tic-tac-toe move has been made where another cell, played
\* instead after an undo, lets the game go on
C25_Witness ==
    /\ TttSession /\ AcceptedKey /\ currentState = NULL
    /\ chain[Len(chain)].winner \in {1, 2}
    /\ CtxLookup(Cur, "winner_id") # <<>>
    /\ \E i \in 1..Len(GetOptions(Undone.st, Undone)) :
          handleGlobalKeydown(Undone, GetOptions(Undone.st, Undone)[i]).st = "ttt.PlayerTurn"

\* C26: after any sequence of accepted and ignored inputs, undos and
\* simulator steps the container holds exactly, in order, the elements of
\* the nodes from the root to the head; an undo removes the elements of
\* precisely the nodes it steps back over.
C26_RenderedOutput ==
    [][/\ container' = ElementsFrom(chain', 1)
       /\ (last'.op = "keydown" /\ last'.key = Backspace)
            => /\ chain' = SubSeq(chain, 1, Len(chain'))
               /\ container = container' \o ElementsFrom(chain, Len(chain') + 1)]_vars

\* an undo has stepped back over two or more nodes with elements, and
\* elements of the nodes below them remain
C26_Witness ==
    /\ PressedLast(Backspace) /\ last.depth >= Len(chain) + 2
    /\ Len(chain) >= 3 /\ chain[Len(chain)].elements # <<>>
    /\ container = ElementsFrom(chain, 1)

\* the step is a simulated transition of a rollout
RolloutStep ==
    /\ sim # <<>> /\ Top.fn = "mc" /\ Top.phase = "while"
    /\ currentState # NULL /\ chain' # chain

\* a node of a rollout and a node of live play carry the same game data
SameNode(simulated, live) ==
    /\ simulated.handler = live.handler
    /\ NodeData(simulated) = NodeData(live)
    /\ simulated.elements = <<>>

\* C27: each transition of a rollout applies a member of the option list
\* reported at the simulated head (null only when the list is empty) on a
\* fresh node whose parent is the previous simulated head, and the node and
\* next state it produces are those the live transition produces from the
\* same position with the same input, so every rollout position is one that
\* live play reaches.
C27_RolloutsFollowRules ==
    [][RolloutStep =>
          \A o \in {Options} :
              \E input \in (IF Len(o) = 0 THEN {NULL} ELSE SeqToSet(o)) :
                  \A live \in {Step(Cur, input, "print")} :
                      /\ Len(chain') = Len(chain) + 1
                      /\ SubSeq(chain', 1, Len(chain)) = chain
                      /\ Len(live.ch) = Len(chain')
                      /\ SameNode(chain'[Len(chain')], live.ch[Len(chain')])
                      /\ currentState' = live.st]_vars

\* a tic-tac-toe rollout two moves after the position it started from
C27_Witness ==
    /\ sim # <<>> /\ Top.fn = "mc" /\ Top.phase = "while" /\ TttSession
    /\ Len(chain) >= Top.savedLen + 2
    /\ chain[Len(chain)].handler = "ttt.PlayerTurn"
    /\ chain[Len(chain)].elements = <<>> /\ Has(chain[Len(chain)].kvs, "board")

\* the transitions a rollout from state st at the head of ch can make at
\* most: one per empty cell (tic-tac-toe) or per remaining turn (Modulo
\* Sum), and the end step
RolloutBound(st, ch) ==
    LET c == [Cur EXCEPT !.st = st, !.ch = ch]
    IN CASE st = "ttt.PlayerTurn" -> CountEmpty(CtxGet(c, "board")) + 1
         [] st = "mod.PlayerTurn" ->
               (CtxGet(c, "player_count") - HeadNode(c).activePlayer + 1) + 1
         [] st \in {"ttt.EndGame", "mod.EndGame"} -> 1
         [] OTHER -> 0

\* the longest rollout of a bundled game: nine cells and the end step
LongestRollout == 10

\* the steps runMonteCarlo's frame f has left at most: per iteration the
\* reset, the transitions and the tally; then the return
McRank(f, ch) ==
    IF f.phase = "for"
    THEN (f.simulations - f.i) * (LongestRollout + 2) + 1
    ELSE (f.simulations - f.i - 1) * (LongestRollout + 2) + 1
            + (LongestRollout - (Len(ch) - f.savedLen)) + 1

\* the steps the running simulator call has left at most
Rank(s, ch) ==
    IF s = <<>> THEN 0
    ELSE IF s[1].fn = "mc" THEN McRank(s[1], ch)
    ELSE LET perOption == s[1].simulations * (LongestRollout + 2) + 2
         IN IF Len(s) = 1
            THEN (Len(s[1].options) - s[1].k + 1) * perOption + 1
            ELSE (Len(s[1].options) - s[1].k) * perOption + 1 + McRank(s[2], ch)

C29_WinnerOnlyOnTerminal ==
    \A i \in 1..Len(chain) :
        chain[i].winner # -1 => (i = Len(chain) /\ currentState = NULL)

\* a rollout has just ended on a node that carries a winner, above a live
\* chain that carries none
C29_Witness ==
    /\ sim # <<>> /\ Top.fn = "mc" /\ Top.phase = "while" /\ BundledSession
    /\ currentState = NULL /\ chain[Len(chain)].winner \in {1, 2}
    /\ Len(chain) >= Top.savedLen + 2

\* the number of cells of the board that hold player p's mark
MarksOf(board, p) == Cardinality({i \in 1..9 : board[i] = p})

\* the player to move on a board: X (player 1) when both have as many marks
ToMove(board) == IF MarksOf(board, 1) = MarksOf(board, 2) THEN 1 ELSE 2

\* the board visible at the head: X has as many marks as O or one more, and
\* in PlayerTurn the head's activePlayer is the player to move
HeadBoardOk(ch, st) ==
    \A b \in {NearestWith(ch, Len(ch), "board")} :
        b # <<>> =>
           /\ MarksOf(b[1], 1) - MarksOf(b[1], 2) \in {0, 1}
           /\ \A i \in 1..9 : b[1][i] \in {0, 1, 2}
           /\ st = "ttt.PlayerTurn" => ch[Len(ch)].activePlayer = ToMove(b[1])

\* node n of the chain against its parent: a node made by PlayerTurn shows
\* the parent's board with the mark of the parent's activePlayer in one cell
\* that was empty; any other node shows the parent's board
BoardStep(ch, n) ==
    \A old \in {NearestWith(ch, n - 1, "board")} :
        \A new \in {NearestWith(ch, n, "board")} :
            old # <<>> =>
               /\ new # <<>>
               /\ \A i \in 1..9 : old[1][i] # 0 => new[1][i] = old[1][i]
               /\ IF ch[n].handler = "ttt.PlayerTurn"
                  THEN /\ ch[n - 1].activePlayer = ToMove(old[1])
                       /\ \E i \in 1..9 :
                             /\ old[1][i] = 0
                             /\ new[1] = [old[1] EXCEPT ![i] = ch[n - 1].activePlayer]
                  ELSE new = old

\* C30: in tic-tac-toe the board visible at the head has #X - #O in {0, 1};
\* along a chain a marked cell is never overwritten; when the game waits in
\* PlayerTurn the head's activePlayer is 1 when the counts are equal and 2
\* otherwise, and the next input (live or simulated) places that player's
\* mark in an empty cell.
C30_BoardInvariants ==
    [][(chain' # <<>> /\ chain'[1].handler = "ttt.StartState") =>
          /\ HeadBoardOk(chain', currentState')
          /\ \A n \in 2..Len(chain') :
                (n > Len(chain) \/ chain'[n] # chain[n]) => BoardStep(chain', n)]_vars

\* a live game waits for O after an undo, with X ahead by one mark
C30_Witness ==
    /\ TttSession /\ sim = <<>> /\ PressedLast(Backspace) /\ last.depth > Len(chain)
    /\ currentState = "ttt.PlayerTurn" /\ chain[Len(chain)].activePlayer = 2
    /\ MarksOf(CtxGet(Cur, "board"), 1) = 2 /\ MarksOf(CtxGet(Cur, "board"), 2) = 1

\* the board visible at node n of chain ch
BoardAt(ch, n) == NearestWith(ch, n, "board")[1]

\* the engine is idle in tic-tac-toe's PlayerTurn on a board with one empty
\* cell
IdleOnLastCell(ch, st, s) ==
    /\ s = <<>> /\ ch # <<>> /\ ch[1].handler = "ttt.StartState"
    /\ st = "ttt.PlayerTurn" /\ CountEmpty(BoardAt(ch, Len(ch))) = 1

\* the key press at depth d left one empty cell and no complete line: the
\* same call added the other player's move on the last cell and the end step
LastCellAutoPlayed(ch, st, d) ==
    /\ Len(ch) = d + 3 /\ st = NULL
    /\ ch[d + 2].handler = "ttt.PlayerTurn" /\ ch[d + 3].handler = "ttt.EndGame"
    /\ \E i \in 1..9 :
          /\ BoardAt(ch, d + 1)[i] = 0
          /\ BoardAt(ch, d + 2)
                = [BoardAt(ch, d + 1) EXCEPT ![i] = ch[d + 1].activePlayer]
    /\ ch[d + 1].activePlayer \in {1, 2} /\ ch[d + 1].activePlayer # ch[d].activePlayer

\* C31: tic-tac-toe never waits for input with a single empty cell: an
\* accepted move that leaves one empty cell and no winner is followed, in
\* the same call, by the other player's mark in that cell and the end of
\* the game; the engine is never idle on a board with eight marks, and the
\* ninth mark of a game is never placed by the node of a key press.
C31_LastCellAutoPlayed ==
    [][/\ ~IdleOnLastCell(chain', currentState', sim')
       /\ (TttSession /\ last'.op = "keydown" /\ last'.key # Backspace
              /\ Len(chain') > Len(chain))
            => \A b \in {BoardAt(chain', Len(chain) + 1)} :
                  /\ CountEmpty(b) >= 1
                  /\ (CountEmpty(b) = 1 /\ ~HoldsLine(b, 1) /\ ~HoldsLine(b, 2))
                        => LastCellAutoPlayed(chain', currentState', Len(chain))]_vars

\* a key press placed the eighth mark without completing a line, and the
\* call ended the game on a full board
C31_Witness ==
    /\ TttSession /\ AcceptedKey /\ Len(chain) = last.depth + 3
    /\ CountEmpty(BoardAt(chain, last.depth + 1)) = 1
    /\ CountEmpty(BoardAt(chain, Len(chain))) = 0
    /\ currentState = NULL /\ sim = <<>>

\* the current_sum visible at node j of chain ch
SumAt(ch, j) == NearestWith(ch, j, "current_sum")[1]

\* node j of a live Modulo Sum chain is the node of a turn: its parent's
\* activePlayer is the turn's number, and the token it echoes is what the
\* node adds to the visible sum
TurnNodeOk(ch, j) ==
    /\ ch[j - 1].activePlayer = j - 2
    /\ SumAt(ch, j) >= SumAt(ch, j - 1)
    /\ ch[j].elements # <<>>
    /\ ch[j].elements[1].text = "> " \o ToString(SumAt(ch, j) - SumAt(ch, j - 1))

\* a live Modulo Sum chain above the root: the node of the player count n
\* with sum 0, then turn nodes in player order, and the end node after
\* exactly n of them
ModChainOk(ch, st) ==
    \A n \in {NearestWith(ch, 2, "player_count")[1]} :
        /\ ch[2].handler = "mod.StartState" /\ SumAt(ch, 2) = 0
        /\ ch[2].activePlayer = 1
        /\ Len(ch) <= n + 3 /\ Len(ch) # n + 2
        /\ \A j \in 3..Len(ch) :
              IF j <= n + 2
              THEN ch[j].handler = "mod.PlayerTurn" /\ TurnNodeOk(ch, j)
              ELSE ch[j].handler = "mod.EndGame"
        /\ st = (IF Len(ch) = n + 3 THEN NULL ELSE "mod.PlayerTurn")

\* C32: in Modulo Sum, after the player count n is chosen exactly n turn
\* inputs are accepted before the game ends, the k-th of them while the
\* head's activePlayer is k, and after any sequence of accepted inputs and
\* undos the current_sum visible at the head is the sum of the turn tokens
\* of the moves not undone: an accepted turn token adds its value, and each
\* turn node of the chain echoes the value it added.
C32_TurnOrderAndSum ==
    [][(last'.op = "keydown" /\ chain' # <<>> /\ chain'[1].handler = "mod.StartState")
          => /\ Len(chain') >= 2 => ModChainOk(chain', currentState')
             /\ Len(chain') = 1 => currentState' = "mod.StartState"
             /\ (Len(chain') > Len(chain) /\ Len(chain) >= 2)
                   => /\ chain[Len(chain)].activePlayer = Len(chain) - 1
                      /\ SumAt(chain', Len(chain) + 1)
                            = SumAt(chain, Len(chain)) + ParseInt(last'.key)]_vars

\* a three-player game in which a turn was undone: the second player is to
\* move again and the visible sum is the first player's token
C32_Witness ==
    /\ ModSession /\ PressedLast(Backspace) /\ last.depth = 4 /\ Len(chain) = 3
    /\ CtxGet(Cur, "player_count") = 3 /\ chain[3].activePlayer = 2
    /\ CtxGet(Cur, "current_sum") = 7 /\ currentState = "mod.PlayerTurn"

\* runOptionMonteCarlo has returned a mapping, called in Modulo Sum while
\* the last player was to move
LastMoverEstimate ==
    /\ last.op = "runOptionMonteCarlo" /\ last.outcome = "returned"
    /\ ret.kind = "map" /\ ModSession /\ before.st = "mod.PlayerTurn"
    /\ CtxGet(BeforeCursor, "player_count") = HeadNode(BeforeCursor).activePlayer

\* C33: in Modulo Sum, runOptionMonteCarlo(n) called while the last player
\* (activePlayer = player_count = p) is to move with visible sum s returns,
\* whatever the random draws, a mapping over the options "0".."9" whose
\* value for o is n when ((s + o) mod p) + 1 = p and 0 otherwise.
C33_LastMoverExact ==
    LastMoverEstimate =>
        LET p == CtxGet(BeforeCursor, "player_count")
            s == CtxGet(BeforeCursor, "current_sum")
        IN /\ DOMAIN ret.map = SeqToSet(Digits)
           /\ \A o \in DOMAIN ret.map :
                 ret.map[o] = IF ((s + ParseInt(o)) % p) + 1 = p THEN last.n ELSE 0

\* a call with n >= 1 for the last of three players: some token wins every
\* rollout and some token none
C33_Witness ==
    /\ LastMoverEstimate /\ last.n >= 1
    /\ CtxGet(BeforeCursor, "player_count") = 3
    /\ \E o1, o2 \in DOMAIN ret.map : ret.map[o1] = last.n /\ ret.map[o2] = 0

OtherDraft == IF engine = "fn" THEN "cls" ELSE "fn"

\* C34: the two engine drafts agree on input handling: from any position
\* of any game, a key press (an input or Backspace) handled by the
\* recursive transition of engine.js and by transitionOnce plus the
\* autoTransition loop of the Engine class leaves the same chain of nodes
\* (depth, producing states, stores, activePlayer, winner, elements), the
\* same current state and the same container.
C34_DraftsAgree ==
    [][last'.op = "keydown" =>
          \A o \in {handleGlobalKeydown([Cur EXCEPT !.eng = OtherDraft], last'.key)} :
              /\ o.ch = chain'
              /\ o.st = currentState'
              /\ o.cont = container'
              /\ o.threw = (last'.outcome = "threw")]_vars

\* engine.js has handled the last turn of a Modulo Sum game: the turn's
\* node and the auto-entered end node were added in one call
C34_Witness ==
    /\ engine = "fn" /\ ModSession /\ AcceptedKey
    /\ Len(chain) = last.depth + 2 /\ currentState = NULL
    /\ chain[Len(chain)].handler = "mod.EndGame"

====
